---- MODULE Spec2Model ----
(***************************************************************************)
(* Subject-property resolution of RentAI_CompSet.                          *)
(*                                                                         *)
(* The model follows server/routes.ts (POST /api/properties/:id/scrape and *)
(* its background job, set-subject, force-link-subject, scrape-units,      *)
(* sync-units, debug-matching, POST /api/scraping/:jobId/complete, and the *)
(* matching functions normalizeAddress to calculatePropertyMatch) and      *)
(* server/storage.ts (MemStorage and PostgresStorage).                     *)
(*                                                                         *)
(* Scheduling.  The server is one Node.js event loop.  A handler runs      *)
(* until it awaits.  An await on a MemStorage method resumes in the same   *)
(* microtask drain, so no other handler runs in between; an await on a     *)
(* PostgresStorage method or on the listings service is real I/O and any   *)
(* other handler may run before it resumes.  The variable turn names the   *)
(* handler that owns the running microtask chain.                          *)
(*                                                                         *)
(* Inputs.  discoverProperties (routes.ts:92-160) returns only listings    *)
(* with a url and a name and fills in a missing address, so the batch      *)
(* never holds a listing the scoring loop would skip (routes.ts:2059).     *)
(* A listing is its url and the score calculatePropertyMatch gives it      *)
(* against the stored property; its name is the name the site shows for    *)
(* that url.                                                               *)
(***************************************************************************)
EXTENDS Integers, Sequences, FiniteSets, TLC

\* ------------------------------------------------------------------ bounds
MaxBatch == 3
MaxRequestBatch == 2
MaxId == 4

\* --------------------------------------------------------------- constants
MatchThreshold == 50
GoodMatchThreshold == 40

\* ------------------------------------------------------------------ inputs
URLs == {"u1", "u2"}
Scores == {0, 20, 42, 50, 70}
Backends == {"mem", "pg"}
AllRequests == {"r1", "r2"}
PropertyId == "p1"
NoTurn == "none"
NoId == 0
NoCriterion == "absent"

\* The name the listings site shows for a url, as a character sequence.
NameOf(url) ==
  IF url = "u1" THEN <<"D", "u", "o">> ELSE <<"D", "u", "o", "2">>

\* Names an operator may type into force-link-subject.
NameQueries == {<<"d", "u", "o">>, <<"2">>, <<"x">>}

PropertyListing == [url : URLs, score : Scores]

RECURSIVE SeqsUpTo(_, _)
SeqsUpTo(S, n) ==
  IF n = 0 THEN {<<>>}
  ELSE LET shorter == SeqsUpTo(S, n - 1)
       IN shorter \cup {Append(s, x) : s \in {t \in shorter : Len(t) = n - 1}, x \in S}

\* What the listings service may return to a resolution pass.
Batches == SeqsUpTo(PropertyListing, MaxBatch)

\* The same, kept shorter where requests of other kinds run alongside.
ShortBatches == SeqsUpTo(PropertyListing, MaxRequestBatch)

\* ------------------------------------------------------------------- state
VARIABLES
  backend,            \* which IStorage implementation createStorage chose
  scrapingJobs,       \* storage: scraping jobs, in insertion order
  scrapedProperties,  \* storage: scraped properties, in insertion order
  nextId,             \* stands for randomUUID / gen_random_uuid: fresh ids
  bg,                 \* per scrape request: position and locals of its handler
  turn,               \* handler that owns the running microtask chain
  lastResponse,       \* the last HTTP response / storage result handed out
  scrapedUnits,       \* storage: ids of the scraped properties that have units
  propertyUnits,      \* storage: the scraped property the property's units came from
  call                \* a call of one of the pure matching functions

vars == <<backend, scrapingJobs, scrapedProperties, nextId, bg, turn, lastResponse,
          scrapedUnits, propertyUnits, call>>

NullBest == [property |-> 0, score |-> 0]

IdleHandler ==
  [pc |-> "idle", jobId |-> NoId, allProperties |-> <<>>, i |-> 1,
   scrapedProperties |-> <<>>, subjectPropertyFound |-> FALSE,
   bestMatch |-> NullBest, tiers |-> {}, updateFailed |-> FALSE]

NoResponse == [op |-> "none", status |-> 0, body |-> <<>>]

NoCall == [fn |-> "none"]

Init ==
  /\ backend \in Backends
  /\ scrapingJobs = <<>>
  /\ scrapedProperties = <<>>
  /\ nextId = 1
  /\ bg = [p \in AllRequests |-> IdleHandler]
  /\ turn = NoTurn
  /\ lastResponse = NoResponse
  /\ scrapedUnits = {}
  /\ propertyUnits = NoId
  /\ call = NoCall

\* ------------------------------------------------------- storage operators
\* Array.prototype.find returns the hit at the lowest position.
FirstOf(ks) == CHOOSE k \in ks : \A m \in ks : k <= m

\* getScrapingJobsByProperty: the jobs of one property, in storage order.
getScrapingJobsByProperty(jobs, propertyId) ==
  SelectSeq(jobs, LAMBDA j : j.propertyId = propertyId)

\* getScrapedPropertiesByJob: the batch of one job, in storage order.
getScrapedPropertiesByJob(props, jobId) ==
  SelectSeq(props, LAMBDA r : r.scrapingJobId = jobId)

getScrapingJob(jobs, id) == \E k \in DOMAIN jobs : jobs[k].id = id

getScrapedProperty(props, id) == \E k \in DOMAIN props : props[k].id = id

\* createScrapingJob: a new row with a fresh id.
createScrapingJob(jobs, id, propertyId, status) ==
  Append(jobs, [id |-> id, propertyId |-> propertyId, status |-> status,
                errorMessage |-> "none", subjectPropertyFound |-> "unset"])

\* updateScrapingJob: merges the updates into the row; no row, no change.
updateScrapingJob(jobs, id, status, errorMessage, found) ==
  [k \in DOMAIN jobs |->
     IF jobs[k].id = id
     THEN [jobs[k] EXCEPT !.status = status, !.errorMessage = errorMessage,
                          !.subjectPropertyFound = found]
     ELSE jobs[k]]

\* updateScrapingJob(jobId, {status: "completed", completedAt}).
completeScrapingJob(jobs, id) ==
  [k \in DOMAIN jobs |->
     IF jobs[k].id = id THEN [jobs[k] EXCEPT !.status = "completed"] ELSE jobs[k]]

\* createScrapedProperty: a new row with a fresh id.
createScrapedProperty(props, id, jobId, listing, score, isSubjectProperty) ==
  Append(props, [id |-> id, scrapingJobId |-> jobId, url |-> listing.url,
                 name |-> NameOf(listing.url), matchScore |-> score,
                 isSubjectProperty |-> isSubjectProperty])

\* The foreign key scraped_properties.scraping_job_id -> scraping_jobs.id
\* exists only in the relational schema; the in-memory map checks nothing.
createScrapedPropertyThrows(be, jobs, jobId) ==
  be = "pg" /\ ~getScrapingJob(jobs, jobId)

\* updateScrapedProperty(id, {isSubjectProperty: true}): the row, if any,
\* gets the flag; the caller sees undefined when there is no such row.
updateScrapedProperty(props, id) ==
  [k \in DOMAIN props |->
     IF props[k].id = id THEN [props[k] EXCEPT !.isSubjectProperty = TRUE]
     ELSE props[k]]

\* ------------------------------------------------------------- scheduling
\* Who may run after handler p awaits a storage call.
AfterStorageAwait(p) == IF backend = "mem" THEN p ELSE NoTurn

MayRun(p) == turn \in {NoTurn, p}

\* ------------------------------------------------- the resolution decisions
\* Variant: the threshold itself does not qualify.
isMatchAboveThreshold(score) == score > MatchThreshold

\* calculatePropertyMatch: isMatch = finalScore >= 50.
isMatch(score) == score >= MatchThreshold

\* "if (matchResult.score > bestMatch.score) bestMatch = {property, score}"
TrackBestMatch(best, i, score) ==
  IF score > best.score THEN [property |-> i, score |-> score] ELSE best

\* scrapedProperties.find(p => p.url === url): position of the first hit.
FindByUrl(local, url) == FirstOf({k \in DOMAIN local : local[k].url = url})

Fallback1Applies(h) ==
  /\ ~h.subjectPropertyFound
  /\ h.bestMatch.property # NoId
  /\ h.bestMatch.score >= GoodMatchThreshold

Fallback2Applies(h) ==
  /\ ~h.subjectPropertyFound
  /\ h.bestMatch.property # NoId
  /\ Len(h.scrapedProperties) > 0

\* Variant: the emergency tier asks for a tracked best match as well.
Fallback3NeedsBestMatch(h) ==
  /\ ~h.subjectPropertyFound
  /\ h.bestMatch.property # NoId
  /\ Len(h.scrapedProperties) > 0

Fallback3Applies(h) ==
  /\ ~h.subjectPropertyFound
  /\ Len(h.scrapedProperties) > 0

\* Variant: the emergency tier takes the last stored property.
LastScraped(local) == Len(local)

\* "const firstProperty = scrapedProperties[0]"
FirstScraped(local) == 1

\* Variant: the empty batch is not told apart.
NoPropertiesFoundNever(batch) == Len(batch) < 0

\* "if (allProperties.length === 0)"
NoPropertiesFound(batch) == Len(batch) = 0

\* ------------------------------------- POST /api/properties/:id/scrape
\* storage.clearScrapedPropertiesCache(), first await of the handler after
\* getProperty.  MemStorage clears its three maps in one go.
\* PostgresStorage issues three statements, each awaited: delete the units,
\* delete the scraped properties, delete the jobs; this step is the first.
ScrapeClear(p) ==
  /\ MayRun(p)
  /\ bg[p].pc = "idle"
  /\ scrapedUnits' = {}
  /\ IF backend = "mem"
     THEN /\ scrapedProperties' = <<>>
          /\ scrapingJobs' = <<>>
          /\ bg' = [bg EXCEPT ![p].pc = "createJob"]
     ELSE /\ bg' = [bg EXCEPT ![p].pc = "clearProperties"]
          /\ UNCHANGED <<scrapedProperties, scrapingJobs>>
  /\ turn' = AfterStorageAwait(p)
  /\ UNCHANGED <<backend, call, propertyUnits, nextId, lastResponse>>

\* A statement the database refuses throws; the handler's catch answers 500
\* and the request ends without a job.
ScrapeClearThrows(p) ==
  /\ bg' = [bg EXCEPT ![p].pc = "done"]
  /\ lastResponse' = [op |-> "scrape", status |-> 500, body |-> <<>>]
  /\ UNCHANGED <<scrapedProperties, scrapingJobs>>

\* delete from scraped_properties: refused while a unit refers to a row.
ScrapeClearProperties(p) ==
  /\ MayRun(p)
  /\ bg[p].pc = "clearProperties"
  /\ IF scrapedUnits # {}
     THEN ScrapeClearThrows(p)
     ELSE /\ scrapedProperties' = <<>>
          /\ bg' = [bg EXCEPT ![p].pc = "clearJobs"]
          /\ UNCHANGED <<scrapingJobs, lastResponse>>
  /\ turn' = NoTurn
  /\ UNCHANGED <<backend, call, scrapedUnits, propertyUnits, nextId>>

\* delete from scraping_jobs: refused while a scraped property refers to a
\* job.
ScrapeClearJobs(p) ==
  /\ MayRun(p)
  /\ bg[p].pc = "clearJobs"
  /\ IF Len(scrapedProperties) > 0
     THEN ScrapeClearThrows(p)
     ELSE /\ scrapingJobs' = <<>>
          /\ bg' = [bg EXCEPT ![p].pc = "createJob"]
          /\ UNCHANGED <<scrapedProperties, lastResponse>>
  /\ turn' = NoTurn
  /\ UNCHANGED <<backend, call, scrapedUnits, propertyUnits, nextId>>

\* The three steps of the cache clear.
ScrapeClearCache(p) ==
  \/ ScrapeClear(p)
  \/ ScrapeClearProperties(p)
  \/ ScrapeClearJobs(p)

\* createScrapingJob, res.json, setImmediate: the request is answered and
\* the background job is queued as a new task.
ScrapeCreateJob(p) ==
  /\ MayRun(p)
  /\ bg[p].pc = "createJob"
  /\ scrapingJobs' = createScrapingJob(scrapingJobs, nextId, PropertyId, "processing")
  /\ nextId' = nextId + 1
  /\ bg' = [bg EXCEPT ![p].pc = "discover", ![p].jobId = nextId]
  /\ lastResponse' = [op |-> "scrape", status |-> 200, body |-> <<nextId>>]
  /\ turn' = NoTurn
  /\ UNCHANGED <<backend, call, scrapedUnits, propertyUnits, scrapedProperties>>

\* The background job resumes with what discoverProperties returned (an
\* error of the listings service leaves allProperties empty as well).
DiscoverFrom(p, batches) ==
  /\ turn = NoTurn
  /\ bg[p].pc = "discover"
  /\ \E batch \in batches :
       IF NoPropertiesFound(batch)
       THEN /\ scrapingJobs' = updateScrapingJob(scrapingJobs, bg[p].jobId, "failed",
                                                 "No properties found", "unset")
            /\ bg' = [bg EXCEPT ![p].pc = "done", ![p].allProperties = batch]
            /\ turn' = NoTurn
       ELSE /\ bg' = [bg EXCEPT ![p].pc = IF Len(batch) = 0 THEN "fallback1" ELSE "loop",
                                ![p].allProperties = batch, ![p].i = 1]
            /\ turn' = p
            /\ UNCHANGED scrapingJobs
  /\ UNCHANGED <<backend, call, scrapedUnits, propertyUnits, scrapedProperties, nextId, lastResponse>>

Discover(p) == DiscoverFrom(p, Batches)

DiscoverShort(p) == DiscoverFrom(p, ShortBatches)

\* One turn of "for (const propertyData of allProperties)": score, track,
\* store.  A foreign-key error of the insert lands in the catch block, which
\* marks the job failed.
ScoreAndStore(p) ==
  LET h == bg[p]
      propertyData == h.allProperties[h.i]
      score == propertyData.score
      isSubjectProperty == isMatch(score)
      found == h.subjectPropertyFound \/ isSubjectProperty
      best == TrackBestMatch(h.bestMatch, h.i, score)
  IN
  /\ MayRun(p)
  /\ h.pc = "loop"
  /\ IF createScrapedPropertyThrows(backend, scrapingJobs, h.jobId)
     THEN /\ scrapingJobs' = updateScrapingJob(scrapingJobs, h.jobId, "failed",
                                               "insert failed", "unset")
          /\ bg' = [bg EXCEPT ![p].pc = "done", ![p].subjectPropertyFound = found,
                              ![p].bestMatch = best]
          /\ turn' = NoTurn
          /\ UNCHANGED <<scrapedProperties, nextId>>
     ELSE /\ scrapedProperties' = createScrapedProperty(scrapedProperties, nextId, h.jobId,
                                                        propertyData, score, isSubjectProperty)
          /\ nextId' = nextId + 1
          /\ bg' = [bg EXCEPT
                      ![p].subjectPropertyFound = found,
                      ![p].bestMatch = best,
                      ![p].scrapedProperties =
                          Append(h.scrapedProperties, [id |-> nextId, url |-> propertyData.url]),
                      ![p].i = h.i + 1,
                      ![p].pc = IF h.i = Len(h.allProperties) THEN "fallback1" ELSE "loop"]
          /\ turn' = AfterStorageAwait(p)
          /\ UNCHANGED scrapingJobs
  /\ UNCHANGED <<backend, call, scrapedUnits, propertyUnits, lastResponse>>

\* The body shared by the three fallback blocks: update the chosen row and
\* believe the flag only when the storage returned the updated row.
MarkFallback(p, tier, k, nextPc) ==
  LET h == bg[p]
      id == h.scrapedProperties[k].id
      updated == getScrapedProperty(scrapedProperties, id)
  IN
  /\ scrapedProperties' = updateScrapedProperty(scrapedProperties, id)
  /\ bg' = [bg EXCEPT ![p].pc = nextPc,
                      ![p].tiers = h.tiers \cup {tier},
                      ![p].subjectPropertyFound = updated,
                      ![p].updateFailed = h.updateFailed \/ ~updated]

SkipFallback(p, nextPc) ==
  /\ bg' = [bg EXCEPT ![p].pc = nextPc]
  /\ UNCHANGED scrapedProperties

\* FALLBACK 1: best match >= 40.
Fallback1(p) ==
  /\ MayRun(p)
  /\ bg[p].pc = "fallback1"
  /\ IF Fallback1Applies(bg[p])
     THEN MarkFallback(p, "good_match_fallback",
                       FindByUrl(bg[p].scrapedProperties,
                                 bg[p].allProperties[bg[p].bestMatch.property].url),
                       "fallback2")
     ELSE SkipFallback(p, "fallback2")
  /\ turn' = AfterStorageAwait(p)
  /\ UNCHANGED <<backend, call, scrapedUnits, propertyUnits, scrapingJobs, nextId, lastResponse>>

\* FALLBACK 2: the best match whatever its score.
Fallback2(p) ==
  /\ MayRun(p)
  /\ bg[p].pc = "fallback2"
  /\ IF Fallback2Applies(bg[p])
     THEN MarkFallback(p, "forced_best_match",
                       FindByUrl(bg[p].scrapedProperties,
                                 bg[p].allProperties[bg[p].bestMatch.property].url),
                       "fallback3")
     ELSE SkipFallback(p, "fallback3")
  /\ turn' = AfterStorageAwait(p)
  /\ UNCHANGED <<backend, call, scrapedUnits, propertyUnits, scrapingJobs, nextId, lastResponse>>

\* FALLBACK 3: the first stored property.
Fallback3(p) ==
  /\ MayRun(p)
  /\ bg[p].pc = "fallback3"
  /\ IF Fallback3Applies(bg[p])
     THEN MarkFallback(p, "first_property_fallback",
                       FirstScraped(bg[p].scrapedProperties), "complete")
     ELSE SkipFallback(p, "complete")
  /\ turn' = AfterStorageAwait(p)
  /\ UNCHANGED <<backend, call, scrapedUnits, propertyUnits, scrapingJobs, nextId, lastResponse>>

\* updateScrapingJob(status: "completed", results: {subjectPropertyFound}).
Complete(p) ==
  /\ MayRun(p)
  /\ bg[p].pc = "complete"
  /\ scrapingJobs' = updateScrapingJob(scrapingJobs, bg[p].jobId, "completed", "none",
                                       IF bg[p].subjectPropertyFound THEN "true" ELSE "false")
  /\ bg' = [bg EXCEPT ![p].pc = "done"]
  /\ turn' = NoTurn
  /\ UNCHANGED <<backend, call, scrapedUnits, propertyUnits, scrapedProperties, nextId, lastResponse>>

\* ------------------------------------------------------------ text helpers
\* A string literal as the sequence of its characters.
Chars(s) == [k \in 1..Len(s) |-> SubSeq(s, k, k)]

UpperCase == Chars("ABCDEFGHIJKLMNOPQRSTUVWXYZ")
LowerCase == Chars("abcdefghijklmnopqrstuvwxyz")
Digits == {"0", "1", "2", "3", "4", "5", "6", "7", "8", "9"}

\* The lower-case letter of each upper-case letter.
UpperToLower ==
  [c \in {UpperCase[k] : k \in DOMAIN UpperCase} |->
     LowerCase[CHOOSE k \in DOMAIN UpperCase : UpperCase[k] = c]]

\* String.prototype.toLowerCase, one character.
ToLowerChar(c) == IF c \in DOMAIN UpperToLower THEN UpperToLower[c] ELSE c

toLowerCase(str) == [k \in DOMAIN str |-> ToLowerChar(str[k])]

\* String.prototype.includes
includes(str, sub) ==
  \E k \in 0..(Len(str) - Len(sub)) : SubSeq(str, k + 1, k + Len(sub)) = sub

\* ------------------------------- POST /api/properties/:id/set-subject
\* The handler looks the scraped property up, walks the property's jobs to
\* log the previous holders, and answers; it issues no storage update.
SetSubjectFlags(props, scrapedPropertyId) == props

SetSubject(scrapedPropertyId) ==
  /\ turn = NoTurn
  /\ IF getScrapedProperty(scrapedProperties, scrapedPropertyId)
     THEN /\ scrapedProperties' = SetSubjectFlags(scrapedProperties, scrapedPropertyId)
          /\ lastResponse' = [op |-> "set-subject", status |-> 200,
                              body |-> <<scrapedPropertyId>>]
     ELSE /\ lastResponse' = [op |-> "set-subject", status |-> 404, body |-> <<>>]
          /\ UNCHANGED scrapedProperties
  /\ UNCHANGED <<backend, call, scrapedUnits, propertyUnits, scrapingJobs, nextId, bg, turn>>

\* -------------------------- POST /api/properties/:id/force-link-subject
\* "p => (url && p.url === url) || (name && p.name.toLowerCase().includes(...))"
ForceLinkMatches(r, url, name) ==
  \/ url # NoCriterion /\ r.url = url
  \/ name # <<>> /\ includes(toLowerCase(r.name), toLowerCase(name))

\* The first job of the property, in storage order, that holds a match.
ForceLinkJobs(jobs, props, url, name) ==
  LET mine == getScrapingJobsByProperty(jobs, PropertyId)
  IN {k \in DOMAIN mine :
        \E m \in DOMAIN props :
           props[m].scrapingJobId = mine[k].id /\ ForceLinkMatches(props[m], url, name)}

ForceLinkTarget(jobs, props, url, name) ==
  LET mine == getScrapingJobsByProperty(jobs, PropertyId)
      ks == ForceLinkJobs(jobs, props, url, name)
      batch == getScrapedPropertiesByJob(props, mine[FirstOf(ks)].id)
  IN batch[FirstOf({k \in DOMAIN batch : ForceLinkMatches(batch[k], url, name)})]

\* Variant: the target's flag is flipped instead of set.
ForceLinkFlagsToggle(be, props, target) ==
  IF be = "mem"
  THEN [k \in DOMAIN props |->
          IF props[k].scrapingJobId # target.scrapingJobId THEN props[k]
          ELSE IF props[k].id = target.id
               THEN [props[k] EXCEPT !.isSubjectProperty = ~props[k].isSubjectProperty]
               ELSE [props[k] EXCEPT !.isSubjectProperty = FALSE]]
  ELSE props

\* The handler writes prop.isSubjectProperty on the objects that
\* getScrapedPropertiesByJob returned.  MemStorage hands out the stored
\* objects, so the writes land in the map; PostgresStorage hands out fresh
\* rows, so the table keeps its flags.
ForceLinkFlags(be, props, target) ==
  IF be = "mem"
  THEN [k \in DOMAIN props |->
          IF props[k].scrapingJobId # target.scrapingJobId THEN props[k]
          ELSE IF props[k].id = target.id
               THEN [props[k] EXCEPT !.isSubjectProperty = TRUE]
               ELSE [props[k] EXCEPT !.isSubjectProperty = FALSE]]
  ELSE props

\* After the flags, the property's units are cleared and rebuilt from the
\* scraped units of the target (none, when it has none).
ForceLinkSubject(url, name) ==
  /\ turn = NoTurn
  /\ IF url = NoCriterion /\ name = <<>>
     THEN /\ lastResponse' = [op |-> "force-link", status |-> 400, body |-> <<>>]
          /\ UNCHANGED <<scrapedProperties, propertyUnits>>
     ELSE IF ForceLinkJobs(scrapingJobs, scrapedProperties, url, name) = {}
     THEN /\ lastResponse' = [op |-> "force-link", status |-> 404, body |-> <<>>]
          /\ UNCHANGED <<scrapedProperties, propertyUnits>>
     ELSE LET target == ForceLinkTarget(scrapingJobs, scrapedProperties, url, name)
          IN /\ scrapedProperties' = ForceLinkFlags(backend, scrapedProperties, target)
             /\ propertyUnits' = IF target.id \in scrapedUnits THEN target.id ELSE NoId
             /\ lastResponse' = [op |-> "force-link", status |-> 200, body |-> <<target.id>>]
  /\ UNCHANGED <<backend, call, scrapedUnits, scrapingJobs, nextId, bg, turn>>

\* ------------------------------------------ storage reads of the subject
IsSubject(r) == r.isSubjectProperty = TRUE

SubjectRows(props) == {k \in DOMAIN props : IsSubject(props[k])}

\* MemStorage.getSubjectScrapedProperty marks the first stored property
\* when none is flagged; PostgresStorage only selects.
SubjectAfterRead(be, props) ==
  IF SubjectRows(props) # {} THEN props
  ELSE IF be = "mem" /\ Len(props) > 0
       THEN [props EXCEPT ![1].isSubjectProperty = TRUE]
       ELSE props

SubjectRead(be, props) ==
  LET after == SubjectAfterRead(be, props)
  IN IF SubjectRows(after) = {} THEN <<>>
     ELSE <<after[FirstOf(SubjectRows(after))].id>>

GetSubjectScrapedProperty ==
  /\ turn = NoTurn
  /\ scrapedProperties' = SubjectAfterRead(backend, scrapedProperties)
  /\ lastResponse' = [op |-> "getSubject", status |-> 200,
                      body |-> SubjectRead(backend, scrapedProperties)]
  /\ UNCHANGED <<backend, call, scrapedUnits, propertyUnits, scrapingJobs, nextId, bg, turn>>

\* getAllScrapedCompetitors: MemStorage first calls getSubjectScrapedProperty
\* and then filters the (same) objects; PostgresStorage selects the rows
\* whose flag is false or null.
CompetitorsRead(be, props) ==
  LET after == SubjectAfterRead(be, props)
      rest == SelectSeq(after, LAMBDA r : ~IsSubject(r))
  IN [k \in DOMAIN rest |-> rest[k].id]

GetAllScrapedCompetitors ==
  /\ turn = NoTurn
  /\ scrapedProperties' = SubjectAfterRead(backend, scrapedProperties)
  /\ lastResponse' = [op |-> "getCompetitors", status |-> 200,
                      body |-> CompetitorsRead(backend, scrapedProperties)]
  /\ UNCHANGED <<backend, call, scrapedUnits, propertyUnits, scrapingJobs, nextId, bg, turn>>

\* ------------------------------- POST /api/competitors/scrape-units
NoProperty == "null"

\* getOriginalPropertyIdFromScraped: the property of the row's job.
getOriginalPropertyIdFromScraped(jobs, row) ==
  IF getScrapingJob(jobs, row.scrapingJobId)
  THEN jobs[FirstOf({k \in DOMAIN jobs : jobs[k].id = row.scrapingJobId})].propertyId
  ELSE NoProperty

\* The propertyId of the unit_details job: the original property for the
\* subject (its own id when there is none), "temp-" + id for a competitor.
UnitsJobPropertyId(jobs, row) ==
  IF row.isSubjectProperty
  THEN IF getOriginalPropertyIdFromScraped(jobs, row) # NoProperty
       THEN getOriginalPropertyIdFromScraped(jobs, row)
       ELSE "scraped"
  ELSE "temp"

\* scraping_jobs.property_id references properties.id in the relational
\* schema; the in-memory map checks nothing.
createScrapingJobThrows(be, propertyId) == be = "pg" /\ propertyId # PropertyId

\* One turn of "for (const property of propertiesToProcess)": the job, the
\* units the extraction service found, the job's completion.  s carries the
\* jobs, the rows with units and the next fresh id.
ScrapeUnitsOf(be, s, row, found) ==
  IF createScrapingJobThrows(be, UnitsJobPropertyId(s.jobs, row)) THEN s
  ELSE [jobs |-> completeScrapingJob(
                   createScrapingJob(s.jobs, s.nextId, UnitsJobPropertyId(s.jobs, row),
                                     "processing"),
                   s.nextId),
        units |-> IF found THEN s.units \cup {row.id} ELSE s.units,
        nextId |-> s.nextId + 1]

\* The subject, as getSubjectScrapedProperty returns it, is processed first,
\* then the selected rows.  found: whether the extraction service returns
\* units for the listings of this request.
ScrapeUnits(competitorId, found) ==
  /\ turn = NoTurn
  /\ nextId <= MaxId
  /\ IF ~getScrapedProperty(scrapedProperties, competitorId)
     THEN /\ lastResponse' = [op |-> "scrape-units", status |-> 404, body |-> <<>>]
          /\ UNCHANGED <<scrapingJobs, scrapedProperties, scrapedUnits, nextId>>
     ELSE LET after == SubjectAfterRead(backend, scrapedProperties)
              subject == IF SubjectRows(after) = {} THEN <<>>
                         ELSE <<after[FirstOf(SubjectRows(after))]>>
              selected == SelectSeq(after, LAMBDA r : r.id = competitorId)
              propertiesToProcess == subject \o selected
              s0 == [jobs |-> scrapingJobs, units |-> scrapedUnits, nextId |-> nextId]
              s1 == ScrapeUnitsOf(backend, s0, propertiesToProcess[1], found)
              s2 == IF Len(propertiesToProcess) > 1
                    THEN ScrapeUnitsOf(backend, s1, propertiesToProcess[2], found)
                    ELSE s1
          IN /\ scrapedProperties' = after
             /\ scrapingJobs' = s2.jobs
             /\ scrapedUnits' = s2.units
             /\ nextId' = s2.nextId
             /\ lastResponse' = [op |-> "scrape-units", status |-> 200,
                                 body |-> <<Len(propertiesToProcess)>>]
  /\ UNCHANGED <<backend, call, propertyUnits, bg, turn>>

\* ------------------------------ POST /api/scraping/:jobId/complete
\* The caller hands in the listings of a job; they are stored without a
\* flag (null in MemStorage, the column default false in the table).  The
\* matchScore of a row stands for the score calculatePropertyMatch gives
\* its name and address, which is what the diagnostics recompute.
ScrapingComplete(jobId, properties) ==
  /\ turn = NoTurn
  /\ nextId <= MaxId
  /\ IF ~getScrapingJob(scrapingJobs, jobId)
     THEN /\ lastResponse' = [op |-> "complete", status |-> 404, body |-> <<>>]
          /\ UNCHANGED <<scrapingJobs, scrapedProperties, nextId>>
     ELSE /\ scrapingJobs' = completeScrapingJob(scrapingJobs, jobId)
          /\ scrapedProperties' =
               IF Len(properties) = 0 THEN scrapedProperties
               ELSE createScrapedProperty(scrapedProperties, nextId, jobId,
                                          properties[1], properties[1].score, FALSE)
          /\ nextId' = nextId + Len(properties)
          /\ lastResponse' = [op |-> "complete", status |-> 200, body |-> <<jobId>>]
  /\ UNCHANGED <<backend, call, scrapedUnits, propertyUnits, bg, turn>>

\* --------------------------------- POST /api/properties/:id/sync-units
\* The best match of one batch, tracked as the handler's loop tracks it.
RECURSIVE BestMatchUpTo(_, _)
BestMatchUpTo(batch, n) ==
  IF n = 0 THEN NullBest
  ELSE TrackBestMatch(BestMatchUpTo(batch, n - 1), n, batch[n].matchScore)

\* "if (bestMatch.property && bestMatch.score >= 40)"
SyncFallbackApplies(best) ==
  best.property # NoId /\ best.score >= GoodMatchThreshold

\* "for (const job of scrapingJobs)": a flagged row ends the loop; without
\* one, and while no subject is chosen yet, the best match of the batch is
\* taken if its score is reasonable, and the loop goes on.
RECURSIVE SyncUnitsSubject(_, _, _, _)
SyncUnitsSubject(jobs, props, k, acc) ==
  IF k > Len(jobs) THEN acc
  ELSE LET batch == getScrapedPropertiesByJob(props, jobs[k].id)
           flagged == {m \in DOMAIN batch : IsSubject(batch[m])}
           best == BestMatchUpTo(batch, Len(batch))
       IN IF flagged # {}
          THEN [acc EXCEPT !.subject = batch[FirstOf(flagged)].id]
          ELSE IF acc.subject = NoId /\ Len(batch) > 0 /\ SyncFallbackApplies(best)
               THEN SyncUnitsSubject(jobs, props, k + 1,
                                     [subject |-> batch[best.property].id,
                                      fallbackUsed |-> TRUE])
               ELSE SyncUnitsSubject(jobs, props, k + 1, acc)

SyncUnitsFound(jobs, props) ==
  SyncUnitsSubject(getScrapingJobsByProperty(jobs, PropertyId), props, 1,
                   [subject |-> NoId, fallbackUsed |-> FALSE])

\* Without scraped units of the chosen row the answer is 404; otherwise the
\* property's units are replaced by the units of that row.
SyncUnits ==
  LET r == SyncUnitsFound(scrapingJobs, scrapedProperties)
  IN
  /\ turn = NoTurn
  /\ IF r.subject \notin scrapedUnits
     THEN /\ lastResponse' = [op |-> "sync-units", status |-> 404, body |-> <<>>]
          /\ UNCHANGED propertyUnits
     ELSE /\ propertyUnits' = r.subject
          /\ lastResponse' = [op |-> "sync-units", status |-> 200,
                              body |-> <<r.subject, r.fallbackUsed>>]
  /\ UNCHANGED <<backend, call, scrapingJobs, scrapedProperties, scrapedUnits,
                 nextId, bg, turn>>

\* ------------------------------ GET /api/properties/:id/debug-matching
LastOf(ks) == CHOOSE k \in ks : \A m \in ks : m <= k

\* The rows the handler walks: the batch of every job of the property, job
\* after job.
RECURSIVE PropertyRows(_, _, _)
PropertyRows(jobs, props, k) ==
  IF k > Len(jobs) THEN <<>>
  ELSE getScrapedPropertiesByJob(props, jobs[k].id) \o PropertyRows(jobs, props, k + 1)

DebugRows(jobs, props) ==
  PropertyRows(getScrapingJobsByProperty(jobs, PropertyId), props, 1)

\* "if (scrapedProp.isSubjectProperty) results.currentSubject = propertyInfo":
\* the last flagged row wins; 0 stands for null.
DebugCurrentSubject(rows) ==
  IF {k \in DOMAIN rows : rows[k].isSubjectProperty} = {} THEN 0
  ELSE LastOf({k \in DOMAIN rows : rows[k].isSubjectProperty})

\* "if (!results.bestMatch || matchResult.score > results.bestMatch.matchScore)"
RECURSIVE DebugBestMatch(_, _)
DebugBestMatch(rows, n) ==
  IF n = 0 THEN 0
  ELSE LET b == DebugBestMatch(rows, n - 1)
       IN IF b = 0 \/ rows[n].matchScore > rows[b].matchScore THEN n ELSE b

\* Variant: the advice on the best score is given with a subject flagged too.
DebugAdviceAlways(currentSubject, bestMatch) == bestMatch # 0

\* "if (!results.currentSubject && results.bestMatch)"
DebugAdviceApplies(currentSubject, bestMatch) ==
  currentSubject = 0 /\ bestMatch # 0

DebugRecommendations(rows) ==
  LET currentSubject == DebugCurrentSubject(rows)
      bestMatch == DebugBestMatch(rows, Len(rows))
  IN (IF DebugAdviceApplies(currentSubject, bestMatch)
      THEN {IF rows[bestMatch].matchScore >= MatchThreshold THEN "AUTO_LINK"
            ELSE IF rows[bestMatch].matchScore >= GoodMatchThreshold THEN "FORCE_LINK"
            ELSE "RE_SCRAPE"}
      ELSE {})
     \cup
     (IF currentSubject # 0 /\ rows[currentSubject].matchScore < MatchThreshold
      THEN {"WARNING"} ELSE {})

\* Variant: the handler looks the subject up through getSubjectScrapedProperty.
DebugMatchingMarks(be, props) == SubjectAfterRead(be, props)

\* The storage after the handler's reads (getScrapingJobsByProperty and
\* getScrapedPropertiesByJob): it builds its answer from copies.
DebugMatchingReads(be, props) == props

DebugMatching ==
  LET rows == DebugRows(scrapingJobs, scrapedProperties)
      currentSubject == DebugCurrentSubject(rows)
      bestMatch == DebugBestMatch(rows, Len(rows))
  IN
  /\ turn = NoTurn
  /\ scrapedProperties' = DebugMatchingReads(backend, scrapedProperties)
  /\ lastResponse' =
       [op |-> "debug-matching", status |-> 200,
        body |-> <<IF currentSubject = 0 THEN NoId ELSE rows[currentSubject].id,
                   IF bestMatch = 0 THEN NoId ELSE rows[bestMatch].id,
                   DebugRecommendations(rows)>>]
  /\ UNCHANGED <<backend, call, scrapedUnits, propertyUnits, scrapingJobs,
                 nextId, bg, turn>>

\* ---------------------------------------------------------- specification
StoredIds =={scrapedProperties[k].id : k \in DOMAIN scrapedProperties}

\* An id no row carries (the ids handed out so far are below nextId).
UnknownId == nextId

ResolutionPass(p) ==
  \/ ScoreAndStore(p)
  \/ Fallback1(p)
  \/ Fallback2(p)
  \/ Fallback3(p)
  \/ Complete(p)

\* One scrape request and its background job, on either backend.
Next ==
  \/ ScrapeClearCache("r1")
  \/ ScrapeCreateJob("r1")
  \/ Discover("r1")
  \/ ResolutionPass("r1")

Spec == Init /\ [][Next]_vars

\* The same with the override and read requests arriving at any time.
NextRequests ==
  \/ ScrapeClearCache("r1")
  \/ ScrapeCreateJob("r1")
  \/ DiscoverShort("r1")
  \/ ResolutionPass("r1")
  \/ \E id \in StoredIds \cup {UnknownId} : SetSubject(id)
  \/ \E url \in URLs \cup {NoCriterion}, name \in NameQueries \cup {<<>>} :
        ForceLinkSubject(url, name)
  \/ GetSubjectScrapedProperty
  \/ GetAllScrapedCompetitors

SpecRequests == Init /\ [][NextRequests]_vars

\* Listings of one url, one below and one above the match threshold.
ConcurrentListings == [url : {"u1"}, score : {20, 70}]

DiscoverConcurrent(p) == DiscoverFrom(p, SeqsUpTo(ConcurrentListings, MaxRequestBatch))

\* Two scrape requests for the property, each with its background job.
NextConcurrent ==
  \E p \in AllRequests :
     \/ ScrapeClearCache(p)
     \/ ScrapeCreateJob(p)
     \/ DiscoverConcurrent(p)
     \/ ResolutionPass(p)

SpecConcurrent == Init /\ [][NextConcurrent]_vars

StoredJobIds == {scrapingJobs[k].id : k \in DOMAIN scrapingJobs}

\* Listings of one url whose scores lie below, between and at the thresholds.
DiagnosticListings == [url : {"u1"}, score : {0, 42, 50}]

DiscoverDiagnostic(p) == DiscoverFrom(p, SeqsUpTo(DiagnosticListings, MaxRequestBatch))

\* What a caller may hand to the completion endpoint.
CompletedListings == {<<>>} \cup {<<l>> : l \in DiagnosticListings}

\* A scrape with the unit collection, the completion endpoint and the
\* diagnostics arriving at any time.
NextDiagnostics ==
  \/ ScrapeClearCache("r1")
  \/ ScrapeCreateJob("r1")
  \/ DiscoverDiagnostic("r1")
  \/ ResolutionPass("r1")
  \/ \E jobId \in StoredJobIds \cup {UnknownId}, properties \in CompletedListings :
        ScrapingComplete(jobId, properties)
  \/ \E id \in StoredIds \cup {UnknownId}, found \in BOOLEAN : ScrapeUnits(id, found)
  \/ SyncUnits
  \/ DebugMatching

SpecDiagnostics == Init /\ [][NextDiagnostics]_vars

\* ------------------------------------------------------------------ claims
\* The batch of a request: the stored properties of its scraping job.
Batch(p) == getScrapedPropertiesByJob(scrapedProperties, bg[p].jobId)

BatchAfter(p) == getScrapedPropertiesByJob(scrapedProperties', bg'[p].jobId)

FlaggedIn(batch) == {k \in DOMAIN batch : batch[k].isSubjectProperty}

Qualifying(batch) == {k \in DOMAIN batch : batch[k].matchScore >= MatchThreshold}

BestIn(batch) ==
  {k \in DOMAIN batch : \A m \in DOMAIN batch : batch[m].matchScore <= batch[k].matchScore}

\* The step on which the resolution pass of p finishes.
PassEnds(p) == bg[p].pc = "complete" /\ bg'[p].pc = "done"

Finished(p) == bg[p].pc = "done" /\ Len(bg[p].allProperties) > 0

JobOf(p) == scrapingJobs[FirstOf({k \in DOMAIN scrapingJobs : scrapingJobs[k].id = bg[p].jobId})]

\* C1: when the resolution pass finishes, at most one stored candidate of
\* its batch has isSubjectProperty = true, also when several candidates
\* score at or above the match threshold.
C1_AtMostOneAfterPass ==
  [][\A p \in AllRequests :
       PassEnds(p) => Cardinality(FlaggedIn(BatchAfter(p))) <= 1]_vars

\* C2: when the resolution pass finishes on a batch with at least one
\* candidate and every storage update it issued succeeded, at least one
\* candidate of the batch has isSubjectProperty = true.
C2_NeverNoneAfterPass ==
  [][\A p \in AllRequests :
       (PassEnds(p) /\ Len(BatchAfter(p)) > 0 /\ ~bg'[p].updateFailed)
          => FlaggedIn(BatchAfter(p)) # {}]_vars

\* A pass that ended through a fallback tier with a flagged candidate.
C2_Witness ==
  /\ Finished("r1")
  /\ bg["r1"].tiers # {}
  /\ ~bg["r1"].updateFailed
  /\ Len(Batch("r1")) >= 2
  /\ FlaggedIn(Batch("r1")) # {}

\* C3: from the start of a batch's resolution onward, at every moment, at
\* most one candidate of the batch has isSubjectProperty = true.
C3_AtMostOneAtAllTimes ==
  \A p \in AllRequests :
    bg[p].pc \notin {"idle", "createJob", "discover"}
       => Cardinality(FlaggedIn(Batch(p))) <= 1

C5_EarliestWinsTies ==
  [][\A p \in AllRequests :
       (PassEnds(p) /\ Cardinality(BestIn(BatchAfter(p))) >= 2)
          => \A k \in BestIn(BatchAfter(p)) :
                (k \in FlaggedIn(BatchAfter(p))) <=> (k = FirstOf(BestIn(BatchAfter(p))))]_vars

\* C6: when no candidate scores >= 50 and the best score is positive, the
\* single flagged candidate is the best-scoring one, chosen by the
\* good-match tier for a best score in [40, 50) and by the forced-best tier
\* for a best score in (0, 40).
C6_BestFlaggedByFallback ==
  [][\A p \in AllRequests :
       (/\ PassEnds(p)
        /\ Len(BatchAfter(p)) > 0
        /\ Qualifying(BatchAfter(p)) = {}
        /\ BatchAfter(p)[FirstOf(BestIn(BatchAfter(p)))].matchScore > 0)
          => /\ FlaggedIn(BatchAfter(p)) = {FirstOf(BestIn(BatchAfter(p)))}
             /\ bg'[p].tiers =
                  IF BatchAfter(p)[FirstOf(BestIn(BatchAfter(p)))].matchScore >= GoodMatchThreshold
                  THEN {"good_match_fallback"} ELSE {"forced_best_match"}]_vars

\* C7: when every candidate of a non-empty batch scores 0, the first stored
\* candidate is flagged by the emergency tier and no other candidate is.
C7_EmergencyFlagsFirst ==
  [][\A p \in AllRequests :
       (/\ PassEnds(p)
        /\ Len(BatchAfter(p)) > 0
        /\ \A k \in DOMAIN BatchAfter(p) : BatchAfter(p)[k].matchScore = 0)
          => /\ FlaggedIn(BatchAfter(p)) = {1}
             /\ bg'[p].tiers = {"first_property_fallback"}]_vars

\* A finished pass over several candidates that all scored 0.
C7_Witness ==
  /\ Finished("r1")
  /\ Len(Batch("r1")) >= 2
  /\ \A k \in DOMAIN Batch("r1") : Batch("r1")[k].matchScore = 0
  /\ FlaggedIn(Batch("r1")) = {1}
  /\ bg["r1"].tiers = {"first_property_fallback"}

\* C8: when discovery yields zero candidates, the pass creates and flags no
\* scraped property, records no subject, and the job ends failed with the
\* error 'No properties found'.
C8_EmptyBatchNoMutation ==
  [][\A p \in AllRequests :
       (bg[p].pc = "discover" /\ bg'[p].pc # "discover" /\ Len(bg'[p].allProperties) = 0)
          => /\ scrapedProperties' = scrapedProperties
             /\ nextId' = nextId
             /\ bg'[p].pc = "done"
             /\ bg'[p].scrapedProperties = <<>>
             /\ bg'[p].tiers = {}
             /\ \A k \in DOMAIN scrapingJobs' :
                   scrapingJobs'[k].id = bg'[p].jobId
                      => /\ scrapingJobs'[k].status = "failed"
                         /\ scrapingJobs'[k].errorMessage = "No properties found"
                         /\ scrapingJobs'[k].subjectPropertyFound = "unset"]_vars

\* A job that ended on an empty batch.
C8_Witness ==
  /\ bg["r1"].pc = "done"
  /\ bg["r1"].allProperties = <<>>
  /\ scrapedProperties = <<>>
  /\ JobOf("r1").status = "failed"
  /\ JobOf("r1").errorMessage = "No properties found"

\* The flags of the scraped properties of all jobs of the property.
FlaggedIds(props) == {props[k].id : k \in SubjectRows(props)}

\* C9: after set-subject succeeds for scraped property X, X is flagged in
\* storage and no other candidate is: exactly one, the requested one.
C9_SetSubjectMarksRequested ==
  [][(bg' = bg /\ lastResponse'.op = "set-subject" /\ lastResponse'.status = 200)
        => \A id \in StoredIds :
              SetSubject(id) => FlaggedIds(scrapedProperties') = {id}]_vars

\* C10: applying the same manual override a second time, right after the
\* first, leaves every isSubjectProperty flag as the first application left
\* it (force-link-subject by the same criteria, set-subject by the same id).
C10_OverrideIdempotent ==
  /\ \A url \in URLs \cup {NoCriterion}, name \in NameQueries \cup {<<>>} :
        (/\ ~(url = NoCriterion /\ name = <<>>)
         /\ ForceLinkJobs(scrapingJobs, scrapedProperties, url, name) # {})
           => LET once == ForceLinkFlags(backend, scrapedProperties,
                             ForceLinkTarget(scrapingJobs, scrapedProperties, url, name))
              IN /\ ForceLinkJobs(scrapingJobs, once, url, name) # {}
                 /\ ForceLinkFlags(backend, once,
                                   ForceLinkTarget(scrapingJobs, once, url, name)) = once
  /\ \A id \in StoredIds :
        SetSubjectFlags(SetSubjectFlags(scrapedProperties, id), id)
           = SetSubjectFlags(scrapedProperties, id)

\* A force-link that took the flag away from the automatically flagged
\* candidate and gave it to its target.
C10_Witness ==
  /\ lastResponse.op = "force-link"
  /\ lastResponse.status = 200
  /\ \E k \in DOMAIN scrapedProperties :
        /\ scrapedProperties[k].id = lastResponse.body[1]
        /\ scrapedProperties[k].isSubjectProperty
        /\ scrapedProperties[k].matchScore < MatchThreshold
  /\ \E k \in DOMAIN scrapedProperties :
        /\ scrapedProperties[k].matchScore >= MatchThreshold
        /\ ~scrapedProperties[k].isSubjectProperty

\* The batch sync-units has to repair: the first non-empty batch among the
\* jobs of the property.
RECURSIVE FirstBatch(_, _, _)
FirstBatch(jobs, props, k) ==
  IF k > Len(jobs) THEN <<>>
  ELSE IF Len(getScrapedPropertiesByJob(props, jobs[k].id)) > 0
       THEN getScrapedPropertiesByJob(props, jobs[k].id)
       ELSE FirstBatch(jobs, props, k + 1)

UnflaggedBatch ==
  LET rows == DebugRows(scrapingJobs, scrapedProperties)
  IN Len(rows) > 0 /\ \A k \in DOMAIN rows : ~rows[k].isSubjectProperty

\* What the fallback tiers of the cascade choose in a batch: the best match
\* when a score is positive, else the first candidate.
CascadeChoice(batch) ==
  IF BestMatchUpTo(batch, Len(batch)).property # NoId
  THEN batch[BestMatchUpTo(batch, Len(batch)).property].id
  ELSE batch[1].id

\* C11: when sync-units runs and no candidate of a non-empty batch is
\* flagged, it chooses a subject by the fallback tiers of the cascade (best
\* score >= 40, else positive best score, else the first candidate), so a
\* subject is chosen for every non-empty batch.
C11_SyncRepairsSubject ==
  [][(lastResponse'.op = "sync-units" /\ SyncUnits /\ UnflaggedBatch)
        => SyncUnitsFound(scrapingJobs, scrapedProperties).subject =
             CascadeChoice(FirstBatch(getScrapingJobsByProperty(scrapingJobs, PropertyId),
                                      scrapedProperties, 1))]_vars

\* The recommendation the best score alone stands for.
AdviceFor(score) ==
  IF score >= 50 THEN "AUTO_LINK" ELSE IF score >= 40 THEN "FORCE_LINK" ELSE "RE_SCRAPE"

Advice == {"AUTO_LINK", "FORCE_LINK", "RE_SCRAPE"}

BestScore(rows) == rows[FirstOf(BestIn(rows))].matchScore

\* C16 (as stated): for any non-empty batch, debug-matching returns the
\* recommendation the best score determines (>= 50 auto-link, 40-49
\* force-link, < 40 re-scrape), whether or not a candidate is flagged.
C16_AdviceByBestScoreAlways ==
  [][(lastResponse'.op = "debug-matching" /\ DebugMatching
      /\ Len(DebugRows(scrapingJobs, scrapedProperties)) > 0)
        => lastResponse'.body[3] \cap Advice =
             {AdviceFor(BestScore(DebugRows(scrapingJobs, scrapedProperties)))}]_vars

\* C16 (amended): when no stored candidate of the property is flagged,
\* debug-matching returns exactly the recommendation the best score
\* determines; when a candidate is flagged it returns none of the three.
C16_AdviceByBestScoreUnflagged ==
  [][(lastResponse'.op = "debug-matching" /\ DebugMatching
      /\ Len(DebugRows(scrapingJobs, scrapedProperties)) > 0)
        => lastResponse'.body[3] \cap Advice =
             IF UnflaggedBatch
             THEN {AdviceFor(BestScore(DebugRows(scrapingJobs, scrapedProperties)))}
             ELSE {}]_vars

\* debug-matching answered with the auto-link advice for unflagged
\* candidates, the best of which scores at least 50.
C16_Witness ==
  /\ lastResponse.op = "debug-matching"
  /\ lastResponse.body[3] = {"AUTO_LINK"}
  /\ UnflaggedBatch
  /\ Len(DebugRows(scrapingJobs, scrapedProperties)) >= 2

\* C17: debug-matching is read-only: it leaves every candidate (flag and
\* score), every job and the stored units as they were.
C17_DebugMatchingReadOnly ==
  [][(lastResponse'.op = "debug-matching" /\ DebugMatching)
        => /\ scrapedProperties' = scrapedProperties
           /\ scrapingJobs' = scrapingJobs
           /\ scrapedUnits' = scrapedUnits
           /\ propertyUnits' = propertyUnits]_vars

\* debug-matching answered on candidates none of which is flagged, on the
\* in-memory backend, and none is flagged afterwards.
C17_Witness ==
  /\ lastResponse.op = "debug-matching"
  /\ backend = "mem"
  /\ lastResponse.body[1] = NoId
  /\ lastResponse.body[2] # NoId
  /\ UnflaggedBatch

\* The stored rows of the job the row with this id belongs to.
BatchOfRow(props, id) ==
  SelectSeq(props, LAMBDA r :
    \E k \in DOMAIN props : props[k].id = id /\ props[k].scrapingJobId = r.scrapingJobId)

\* C20: after force-link-subject found its target in a batch, the target
\* is the only candidate of that batch with isSubjectProperty = true in
\* storage, on either storage backend.
C20_ForceLinkTargetOnlyFlagged ==
  [][(/\ bg' = bg
      /\ lastResponse'.op = "force-link"
      /\ lastResponse'.status = 200
      /\ \E url \in URLs \cup {NoCriterion}, name \in NameQueries \cup {<<>>} :
            ForceLinkSubject(url, name))
        => FlaggedIds(BatchOfRow(scrapedProperties', lastResponse'.body[1]))
             = {lastResponse'.body[1]}]_vars

\* C12: whenever the job completes, results.subjectPropertyFound is true
\* if and only if some candidate of the batch has isSubjectProperty = true
\* in storage, also when updateScrapedProperty returned no record for a
\* fallback candidate.
C12_FoundIffFlagPersisted ==
  [][\A p \in AllRequests :
       PassEnds(p)
          => \A k \in DOMAIN scrapingJobs' :
                (scrapingJobs'[k].id = bg'[p].jobId /\ scrapingJobs'[k].status = "completed")
                   => (scrapingJobs'[k].subjectPropertyFound = "true"
                         <=> FlaggedIn(BatchAfter(p)) # {})]_vars

\* C18: the background job of a scrape request ends with its scraping job
\* out of 'processing', in 'completed' or 'failed', whatever other requests
\* ran in between.
C18_JobEndsCompletedOrFailed ==
  [][\A p \in AllRequests :
       (bg[p].pc # "done" /\ bg'[p].pc = "done" /\ bg'[p].jobId # NoId)
          => \E k \in DOMAIN scrapingJobs' :
                /\ scrapingJobs'[k].id = bg'[p].jobId
                /\ scrapingJobs'[k].status \in {"completed", "failed"}]_vars

\* ------------------------------------------------ text normalisation
\* Strings are sequences of one-character strings.
Whitespace == {" "}

\* \w of a regular expression.
IsWordChar(c) ==
  \/ c \in Digits
  \/ c = "_"
  \/ \E k \in DOMAIN LowerCase : c = LowerCase[k] \/ c = UpperCase[k]

\* The pieces lo..hi of a string, joined.
RECURSIVE Join(_, _, _)
Join(pieces, lo, hi) ==
  IF lo > hi THEN <<>>
  ELSE IF lo = hi THEN pieces[lo]
  ELSE LET mid == (lo + hi) \div 2
       IN Join(pieces, lo, mid) \o Join(pieces, mid + 1, hi)

\* String.prototype.trim
trimStart(str) ==
  LET kept == {p \in DOMAIN str : str[p] \notin Whitespace}
  IN IF kept = {} THEN <<>> ELSE SubSeq(str, FirstOf(kept), Len(str))

trimEnd(str) ==
  LET kept == {p \in DOMAIN str : str[p] \notin Whitespace}
  IN IF kept = {} THEN <<>> ELSE SubSeq(str, 1, LastOf(kept))

trim(str) == trimEnd(trimStart(str))

\* .replace(/[.,;#]/g, '')
RemovePunctuation(str) ==
  LET Kept(c) == c \notin {".", ",", ";", "#"} IN SelectSeq(str, Kept)

\* .replace(/\s+/g, ' '): the first character of each run of whitespace
\* becomes a space, the rest of the run goes.
CollapseWhitespace(str) ==
  LET Piece(p) == IF str[p] \notin Whitespace THEN <<str[p]>>
                  ELSE IF p > 1 /\ str[p - 1] \in Whitespace THEN <<>>
                  ELSE <<" ">>
  IN Join([p \in DOMAIN str |-> Piece(p)], 1, Len(str))

\* \bword\b matches at position i of str.
WordAt(str, word, i) ==
  /\ i >= 1
  /\ i + Len(word) - 1 <= Len(str)
  /\ str[i] = word[1]
  /\ SubSeq(str, i, i + Len(word) - 1) = word
  /\ (i = 1 \/ ~IsWordChar(str[i - 1]))
  /\ (i + Len(word) > Len(str) \/ ~IsWordChar(str[i + Len(word)]))

\* .replace(/\bword\b/g, rep).  Two matches of a word between word
\* boundaries never overlap, so every position where the word stands is
\* replaced: the match's first character gives rep, its other characters go.
ReplaceWordChars(str, word, rep) ==
  LET matches  == {q \in DOMAIN str : WordAt(str, word, q)}
      Piece(p) == IF p \in matches THEN rep
                  ELSE IF \E q \in matches : q < p /\ p < q + Len(word) THEN <<>>
                  ELSE <<str[p]>>
  IN IF matches = {} THEN str
     ELSE Join([p \in DOMAIN str |-> Piece(p)], 1, Len(str))

ReplaceWord(str, word, rep) == ReplaceWordChars(str, Chars(word), Chars(rep))

\* The replacements of normalizeAddress, in the order of the source.
StreetAbbreviations ==
  << <<"street", "st">>, <<"avenue", "ave">>, <<"boulevard", "blvd">>,
     <<"drive", "dr">>, <<"road", "rd">>, <<"lane", "ln">>, <<"plaza", "plz">>,
     <<"circle", "cir">>, <<"parkway", "pkwy">>, <<"court", "ct">> >>

SingleDirections ==
  << <<"north", "n">>, <<"south", "s">>, <<"east", "e">>, <<"west", "w">> >>

\* Variant: the two-part directions are not replaced.
TwoPartDirectionsKept == <<>>

TwoPartDirections ==
  << <<"northeast", "ne">>, <<"northwest", "nw">>,
     <<"southeast", "se">>, <<"southwest", "sw">> >>

\* The chain of .replace calls for the rules, first rule first; nothing
\* is left to replace in an empty string.
RECURSIVE ReplaceAll(_, _)
ReplaceAll(str, rules) ==
  IF rules = <<>> \/ str = <<>> THEN str
  ELSE ReplaceAll(ReplaceWord(str, Head(rules)[1], Head(rules)[2]), Tail(rules))

normalizeAddress(address) ==
  IF address = <<>> THEN <<>>
  ELSE LET lowered == RemovePunctuation(trim(toLowerCase(address)))
           streets == ReplaceAll(lowered, StreetAbbreviations)
           single  == ReplaceAll(streets, SingleDirections)
           double  == ReplaceAll(single, TwoPartDirections)
       IN trim(CollapseWhitespace(double))

\* "address.match(/^(\d+)/)": the leading digits of the address as given.
extractStreetNumber(address) ==
  LET digits == {p \in DOMAIN address : \A q \in 1..p : address[q] \in Digits}
  IN SubSeq(address, 1, Cardinality(digits))

\* "normalized.split(',')[0]"
BeforeComma(str) ==
  LET commas == {p \in DOMAIN str : str[p] = ","}
  IN IF commas = {} THEN str ELSE SubSeq(str, 1, FirstOf(commas) - 1)

\* .replace(/^\d+\s*/, '')
RemoveLeadingNumber(str) ==
  LET number == extractStreetNumber(str)
  IN IF number = <<>> THEN str
     ELSE trimStart(SubSeq(str, Len(number) + 1, Len(str)))

extractStreetName(address) ==
  trim(RemoveLeadingNumber(trim(BeforeComma(normalizeAddress(address)))))

startsWith(str, prefix) ==
  Len(prefix) <= Len(str) /\ SubSeq(str, 1, Len(prefix)) = prefix

endsWith(str, suffix) ==
  Len(suffix) <= Len(str)
    /\ SubSeq(str, Len(str) - Len(suffix) + 1, Len(str)) = suffix

\* .replace(/^(the)\s+/i, '')
RemoveLeadingArticle(str) ==
  IF startsWith(str, Chars("the")) /\ Len(str) > 3 /\ str[4] \in Whitespace
  THEN trimStart(SubSeq(str, 4, Len(str)))
  ELSE str

\* (apartments?|apt|residences?|homes?|towers?|place|commons?)
NameSuffixes ==
  {Chars(w) : w \in {"apartments", "apartment", "apt", "residences", "residence",
                     "homes", "home", "towers", "tower", "place", "commons",
                     "common"}}

\* .replace(/\s+(...)$/i, '')
RemoveNameSuffix(str) ==
  LET found == {w \in NameSuffixes :
                   /\ endsWith(str, w)
                   /\ Len(str) > Len(w)
                   /\ str[Len(str) - Len(w)] \in Whitespace}
  IN IF found = {} THEN str
     ELSE LET w == CHOOSE x \in found : TRUE
          IN trimEnd(SubSeq(str, 1, Len(str) - Len(w)))

normalizePropertyName(name) ==
  IF name = <<>> THEN <<>>
  ELSE trim(CollapseWhitespace(
         RemoveNameSuffix(RemoveLeadingArticle(trim(toLowerCase(name))))))

\* Math.round of the non-negative quotient num / den.  The double
\* arithmetic of the source gives the same integer for every quotient the
\* functions below form on strings shorter than 40 characters.
MathRound(num, den) == (2 * num + den) \div (2 * den)

\* Variant: the deletion is left out of the minimum.
MinWithoutDeletion(a, b, c) == IF a <= b THEN a ELSE b

Min3(a, b, c) ==
  IF a <= b /\ a <= c THEN a ELSE IF b <= c THEN b ELSE c

\* Row i of the Levenshtein matrix; above[k + 1] is matrix[i - 1][k] and
\* row holds the cells of row i filled so far.
RECURSIVE MatrixRow(_, _, _, _, _)
MatrixRow(str1, str2, above, i, row) ==
  LET j == Len(row)
  IN IF j > Len(str2) THEN row
     ELSE MatrixRow(str1, str2, above, i,
            Append(row, IF str1[i] = str2[j]
                        THEN above[j]
                        ELSE Min3(above[j] + 1, row[j] + 1, above[j + 1] + 1)))

\* The rows from i on; the loop ends when the row above, which starts with
\* matrix[i - 1][0] = i - 1, is row len1.
RECURSIVE MatrixRows(_, _, _, _)
MatrixRows(str1, str2, above, i) ==
  IF above[1] = Len(str1) THEN above
  ELSE MatrixRows(str1, str2, MatrixRow(str1, str2, above, i, <<i>>), i + 1)

\* matrix[len1][len2]
Levenshtein(str1, str2) ==
  MatrixRows(str1, str2, [k \in 1..(Len(str2) + 1) |-> k - 1], 1)[Len(str2) + 1]

calculateStringSimilarity(str1, str2) ==
  IF str1 = <<>> \/ str2 = <<>> THEN 0
  ELSE IF str1 = str2 THEN 100
  ELSE LET maxLen == IF Len(str1) >= Len(str2) THEN Len(str1) ELSE Len(str2)
       IN MathRound((maxLen - Levenshtein(str1, str2)) * 100, maxLen)

\* .split(' '): the words between the spaces, the k-th of them between
\* the (k - 1)-th and the k-th space.
split(str) ==
  LET spaces   == {p \in DOMAIN str : str[p] = " "}
      Space(k) == IF k = 0 THEN 0
                  ELSE IF k > Cardinality(spaces) THEN Len(str) + 1
                  ELSE CHOOSE p \in spaces : Cardinality({q \in spaces : q <= p}) = k
  IN [k \in 1..(Cardinality(spaces) + 1) |->
        SubSeq(str, Space(k - 1) + 1, Space(k) - 1)]

\* ".split(' ').filter(w => w.length > 2)"
KeyWords(name) ==
  LET Long(w) == Len(w) > 2 IN SelectSeq(split(toLowerCase(name)), Long)

\* "subjectWords.filter(w => scrapedWords.includes(w))"
CommonWords(subjectWords, scrapedWords) ==
  LET Shared(w) == \E k \in DOMAIN scrapedWords : scrapedWords[k] = w
  IN SelectSeq(subjectWords, Shared)

\* "containmentScore >= 50"; the quotient is NaN, and the comparison
\* false, when one side has no key word.
ContainmentAtLeastHalf(subjectWords, scrapedWords) ==
  LET least == IF Len(subjectWords) <= Len(scrapedWords)
               THEN Len(subjectWords) ELSE Len(scrapedWords)
  IN least > 0 /\ 2 * Len(CommonWords(subjectWords, scrapedWords)) >= least

\* .replace('the', ''): the first occurrence only.
RemoveFirstThe(str) ==
  LET hits == {p \in DOMAIN str : startsWith(SubSeq(str, p, Len(str)), Chars("the"))}
  IN IF hits = {} THEN str
     ELSE SubSeq(str, 1, FirstOf(hits) - 1) \o SubSeq(str, FirstOf(hits) + 3, Len(str))

\* Variant: a street number that is a prefix of the other counts as a
\* mismatch.
StreetNumberPointsExactOnly(subjectNumber, scrapedNumber) ==
  IF subjectNumber # <<>> /\ scrapedNumber # <<>>
  THEN IF subjectNumber = scrapedNumber THEN 30 ELSE 0
  ELSE 10

\* 1. street number (30 points)
StreetNumberPoints(subjectNumber, scrapedNumber) ==
  IF subjectNumber # <<>> /\ scrapedNumber # <<>>
  THEN IF subjectNumber = scrapedNumber THEN 30
       ELSE IF startsWith(subjectNumber, scrapedNumber)
                 \/ startsWith(scrapedNumber, subjectNumber)
            THEN 15
            ELSE 0
  ELSE 10

\* 2. street name similarity (25 points)
StreetNamePoints(subjectStreet, scrapedStreet) ==
  IF subjectStreet # <<>> /\ scrapedStreet # <<>>
  THEN LET streetSimilarity == calculateStringSimilarity(subjectStreet, scrapedStreet)
       IN IF streetSimilarity >= 80 THEN MathRound(streetSimilarity * 25, 100)
          ELSE IF streetSimilarity >= 60 THEN MathRound(streetSimilarity * 20, 100)
          ELSE 0
  ELSE 0

\* 3. property name similarity (20 points)
PropertyNamePoints(subjectName, scrapedName) ==
  IF subjectName # <<>> /\ scrapedName # <<>>
  THEN LET nameSimilarity == calculateStringSimilarity(subjectName, scrapedName)
       IN IF nameSimilarity >= 70 THEN 20
          ELSE IF \/ ContainmentAtLeastHalf(KeyWords(subjectName), KeyWords(scrapedName))
                  \/ includes(subjectName, scrapedName)
                  \/ includes(scrapedName, subjectName)
               THEN 15
          ELSE IF nameSimilarity >= 50 THEN MathRound(nameSimilarity * 20, 100)
          ELSE IF trim(RemoveFirstThe(subjectName)) = trim(RemoveFirstThe(scrapedName))
               THEN 12
          ELSE 0
  ELSE 0

\* 4. full address similarity (15 points)
FullAddressPoints(subjectAddress, scrapedAddress) ==
  LET fullAddressSimilarity == calculateStringSimilarity(subjectAddress, scrapedAddress)
  IN IF fullAddressSimilarity >= 70 THEN MathRound(fullAddressSimilarity * 15, 100)
     ELSE 0

\* 5. city / state context (10 points)
ContextPoints(city, state, scrapedAddress) ==
  IF city # <<>> \/ state # <<>>
  THEN LET subjectCity  == normalizeAddress(city)
           subjectState == normalizeAddress(state)
       IN (IF subjectCity # <<>> /\ includes(scrapedAddress, subjectCity) THEN 5 ELSE 0)
          + (IF subjectState # <<>> /\ includes(scrapedAddress, subjectState) THEN 5 ELSE 0)
  ELSE 0

\* Variant: the city/state points are missing from the maximum.
maxPossibleScoreWithoutContext == 30 + 25 + 20 + 15

\* "maxPossibleScore += ..." of the five components.
maxPossibleScore == 30 + 25 + 20 + 15 + 10

calculatePropertyMatch(subjectProperty, scrapedProperty) ==
  LET subjectName    == normalizePropertyName(subjectProperty.propertyName)
      subjectAddress == normalizeAddress(subjectProperty.address)
      scrapedName    == normalizePropertyName(scrapedProperty.name)
      scrapedAddress == normalizeAddress(scrapedProperty.address)
      streetNumber   == StreetNumberPoints(extractStreetNumber(subjectProperty.address),
                                           extractStreetNumber(scrapedProperty.address))
      streetName     == StreetNamePoints(extractStreetName(subjectProperty.address),
                                         extractStreetName(scrapedProperty.address))
      propertyName   == PropertyNamePoints(subjectName, scrapedName)
      totalScore     == streetNumber + streetName + propertyName
                          + FullAddressPoints(subjectAddress, scrapedAddress)
                          + ContextPoints(subjectProperty.city, subjectProperty.state,
                                          scrapedAddress)
      finalScore     == IF maxPossibleScore > 0
                        THEN MathRound(totalScore * 100, maxPossibleScore)
                        ELSE 0
  IN [isMatch |-> isMatch(finalScore),
      score |-> finalScore,
      totalScore |-> totalScore,
      componentScores |-> [streetNumber |-> streetNumber,
                           streetName |-> streetName,
                           propertyName |-> propertyName]]

\* ------------------------------------------- calls of the matching functions
\* Property names and addresses the matching functions are called with.
PropertyNames ==
  {Chars(n) : n \in {"", "The Duo Apartments", "Duo", "Atlas Place", "The Atlas",
                     "Athey", "Ay"}}

Addresses ==
  {Chars(a) : a \in {"", "1234 Northeast Main Boulevard",
                     "1234 NE Main Blvd, Omaha, NE", "1234 Oak Drive",
                     "1234 Elm Court", "222 S 15th St",
                     "2221 South 15th Street, Omaha"}}

\* Further addresses for normalizeAddress alone.
DirectionAddresses ==
  {Chars(a) : a \in {"500 Southwest Oak Road", "77 Northwest Parkway",
                     "9 Southeast Lane", "12 North East Street",
                     "40 Northeastern Ave", "8 north-east plaza"}}

\* city and state of the subject property, both absent or both given.
SubjectProperties ==
  [propertyName : PropertyNames, address : Addresses,
   city : {<<>>}, state : {<<>>}]
    \cup [propertyName : PropertyNames, address : Addresses,
          city : {Chars("Omaha")}, state : {Chars("NE")}]

ScrapedListings == [name : PropertyNames, address : Addresses]

NoResult == <<>>

MatchCalls ==
  [fn : {"calculatePropertyMatch"}, subjectProperty : SubjectProperties,
   scrapedProperty : ScrapedListings, pc : {"called"}, result : {NoResult}]

NormalizeCalls ==
  [fn : {"normalizeAddress"}, address : Addresses \cup DirectionAddresses,
   pc : {"called"}, result : {NoResult}]

\* Strings calculateStringSimilarity is called with.
SimilarityInputs ==
  {Chars(w) : w \in {"", "kitten", "sitting", "duo", "duo 2", "atlas", "flaw",
                     "lawn", "oak dr", "elm ct"}}

SimilarityCalls ==
  [fn : {"calculateStringSimilarity"}, str1 : SimilarityInputs,
   str2 : SimilarityInputs, pc : {"called"}, result : {NoResult}]

\* Addresses extractStreetName is called with.
StreetNameCalls ==
  [fn : {"extractStreetName"},
   address : Addresses \cup {Chars("222 S 15th St, Omaha, NE 68102")},
   pc : {"called"}, result : {NoResult}]

InitMatch ==
  /\ backend = "mem"
  /\ scrapingJobs = <<>>
  /\ scrapedProperties = <<>>
  /\ nextId = 1
  /\ bg = [p \in AllRequests |-> IdleHandler]
  /\ turn = NoTurn
  /\ lastResponse = NoResponse
  /\ scrapedUnits = {}
  /\ propertyUnits = NoId
  /\ call \in MatchCalls \cup NormalizeCalls \cup SimilarityCalls \cup StreetNameCalls

Returns(result) ==
  /\ call.pc = "called"
  /\ call' = [call EXCEPT !.pc = "returned", !.result = result]
  /\ UNCHANGED <<backend, scrapingJobs, scrapedProperties, nextId, bg, turn,
                 lastResponse, scrapedUnits, propertyUnits>>

CallCalculatePropertyMatch ==
  /\ call.fn = "calculatePropertyMatch"
  /\ Returns(calculatePropertyMatch(call.subjectProperty, call.scrapedProperty))

CallNormalizeAddress ==
  /\ call.fn = "normalizeAddress"
  /\ Returns(normalizeAddress(call.address))

CallCalculateStringSimilarity ==
  /\ call.fn = "calculateStringSimilarity"
  /\ Returns(calculateStringSimilarity(call.str1, call.str2))

CallExtractStreetName ==
  /\ call.fn = "extractStreetName"
  /\ Returns(extractStreetName(call.address))

NextMatch ==
  \/ CallCalculatePropertyMatch
  \/ CallNormalizeAddress
  \/ CallCalculateStringSimilarity
  \/ CallExtractStreetName

SpecMatch == InitMatch /\ [][NextMatch]_vars

\* A call of calculatePropertyMatch has returned.
MatchReturned == call.fn = "calculatePropertyMatch" /\ call.pc = "returned"

\* A call of normalizeAddress has returned.
NormalizeReturned == call.fn = "normalizeAddress" /\ call.pc = "returned"

\* C13: with an empty name and an empty address on both sides and no
\* city/state, calculatePropertyMatch returns score 0 and isMatch false.
C13_EmptyInputsScoreZero ==
  (/\ MatchReturned
   /\ call.subjectProperty = [propertyName |-> <<>>, address |-> <<>>,
                              city |-> <<>>, state |-> <<>>]
   /\ call.scrapedProperty = [name |-> <<>>, address |-> <<>>])
     => (call.result.score = 0 /\ call.result.isMatch = FALSE)

\* C14: the score calculatePropertyMatch returns is an integer from 0 to
\* 100, the points awarded never exceeding the maximum possible points.
C14_ScoreWithinRange ==
  MatchReturned
     => /\ call.result.score \in 0..100
        /\ call.result.totalScore \in 0..maxPossibleScore

\* Every component is awarded in full: the score is 100.
C14_Witness == MatchReturned /\ call.result.score = 100

DirectionForms ==
  {<<Chars("northeast"), Chars("ne")>>, <<Chars("northwest"), Chars("nw")>>,
   <<Chars("southeast"), Chars("se")>>, <<Chars("southwest"), Chars("sw")>>}

HasWord(str, word) == \E i \in DOMAIN str : WordAt(str, word, i)

\* C19: normalizeAddress turns every whole-word two-part direction into its
\* two-letter form, never into a one-letter form followed by the rest, and
\* abbreviates the street type as well:
\* "1234 Northeast Main Boulevard" becomes "1234 ne main blvd".
C19_TwoPartDirections ==
  NormalizeReturned
     => /\ \A d \in DirectionForms :
              HasWord(toLowerCase(call.address), d[1])
                 => /\ HasWord(call.result, d[2])
                    /\ ~HasWord(call.result, d[1])
        /\ call.address = Chars("1234 Northeast Main Boulevard")
              => call.result = Chars("1234 ne main blvd")

C19_Witness ==
  /\ NormalizeReturned
  /\ call.address = Chars("1234 Northeast Main Boulevard")
  /\ call.result = Chars("1234 ne main blvd")

\* C21: the denominator of the final score leaves out the city/state
\* component when the subject has neither city nor state, so such a subject
\* with full points on the other four components scores 100.
C21_ApplicableDenominator ==
  (/\ MatchReturned
   /\ call.subjectProperty.city = <<>>
   /\ call.subjectProperty.state = <<>>
   /\ call.result.totalScore = 30 + 25 + 20 + 15)
     => call.result.score = 100

\* The street numbers of the two addresses of the call.
SubjectStreetNumber == extractStreetNumber(call.subjectProperty.address)

ScrapedStreetNumber == extractStreetNumber(call.scrapedProperty.address)

SubjectName == normalizePropertyName(call.subjectProperty.propertyName)

ScrapedName == normalizePropertyName(call.scrapedProperty.name)

\* A name without its leading article.
WithoutLeadingArticle(name) ==
  IF startsWith(name, Chars("the")) THEN trim(SubSeq(name, 4, Len(name)))
  ELSE name

\* The points the cascade of C23 gives two non-empty normalized names.
CascadePoints(subjectName, scrapedName) ==
  LET similarity == calculateStringSimilarity(subjectName, scrapedName)
  IN IF similarity >= 70 THEN 20
     ELSE IF \/ ContainmentAtLeastHalf(KeyWords(subjectName), KeyWords(scrapedName))
             \/ includes(subjectName, scrapedName)
             \/ includes(scrapedName, subjectName)
          THEN 15
     ELSE IF similarity >= 50 THEN MathRound(similarity * 20, 100)
     ELSE IF WithoutLeadingArticle(subjectName) = WithoutLeadingArticle(scrapedName)
          THEN 12
     ELSE 0

\* C23: the property-name component follows the cascade 20 (similarity of
\* 70 or more), 15 (containment or substring), proportional (similarity of
\* 50 or more), 12 only when the names are identical after a leading
\* article is stripped, else 0.
C23_PropertyNameCascade ==
  (MatchReturned /\ SubjectName # <<>> /\ ScrapedName # <<>>)
     => call.result.componentScores.propertyName = CascadePoints(SubjectName, ScrapedName)

\* A call of calculateStringSimilarity has returned.
SimilarityReturned == call.fn = "calculateStringSimilarity" /\ call.pc = "returned"

\* The Levenshtein distance of two strings, by its defining recursion.
RECURSIVE EditDistance(_, _)
EditDistance(a, b) ==
  IF a = <<>> THEN Len(b)
  ELSE IF b = <<>> THEN Len(a)
  ELSE IF Head(a) = Head(b) THEN EditDistance(Tail(a), Tail(b))
  ELSE LET fewer == {EditDistance(Tail(a), Tail(b)), EditDistance(a, Tail(b)),
                     EditDistance(Tail(a), b)}
       IN 1 + CHOOSE d \in fewer : \A e \in fewer : d <= e

\* C24: calculateStringSimilarity returns 0 when either string is empty,
\* 100 when the strings are equal and non-empty, and otherwise
\* round((maxLen - editDistance) / maxLen * 100); the result is an integer
\* from 0 to 100.
C24_StringSimilarity ==
  SimilarityReturned
     => LET a == call.str1
            b == call.str2
            maxLen == IF Len(a) >= Len(b) THEN Len(a) ELSE Len(b)
        IN /\ call.result \in 0..100
           /\ call.result
                = (IF a = <<>> \/ b = <<>> THEN 0
                   ELSE IF a = b THEN 100
                   ELSE ((maxLen - EditDistance(a, b)) * 200 + maxLen) \div (2 * maxLen))

\* "kitten" against "sitting": distance 3 of 7, similarity 57.
C24_Witness ==
  /\ SimilarityReturned
  /\ call.str1 = Chars("kitten")
  /\ call.str2 = Chars("sitting")
  /\ call.result = 57

\* A call of extractStreetName has returned.
StreetNameReturned == call.fn = "extractStreetName" /\ call.pc = "returned"

\* The street part of an address: the normalized text before the first
\* comma of the address, without its leading number.
StreetPart(address) ==
  trim(RemoveLeadingNumber(trim(normalizeAddress(BeforeComma(address)))))

\* C25: extractStreetName returns only the street part of the address, the
\* text before its first comma without the leading number:
\* "222 S 15th St, Omaha, NE 68102" gives "s 15th st".
C25_StreetPartOnly ==
  StreetNameReturned
     => /\ call.result = StreetPart(call.address)
        /\ call.address = Chars("222 S 15th St, Omaha, NE 68102")
              => call.result = Chars("s 15th st")

\* C26: getSubjectScrapedProperty and getAllScrapedCompetitors return the
\* same result and leave the same flags on the in-memory and the relational
\* backend: what a read does on the backend in use is what it would have
\* done, on the same stored rows, on the other one.
C26_BackendsInterchangeable ==
  [][(bg' = bg /\ lastResponse'.op \in {"getSubject", "getCompetitors"})
        => \A be \in Backends :
              /\ scrapedProperties' = SubjectAfterRead(be, scrapedProperties)
              /\ lastResponse'.body
                   = IF lastResponse'.op = "getSubject"
                     THEN SubjectRead(be, scrapedProperties)
                     ELSE CompetitorsRead(be, scrapedProperties)]_vars

\* C27: in FALLBACK 1 and FALLBACK 2 the row that gets flagged is the row
\* stored for the candidate tracked as bestMatch, for every batch, batches
\* in which several candidates share a url included.
C27_FallbackFlagsBestMatch ==
  [][\A p \in AllRequests :
       (/\ bg[p].pc \in {"fallback1", "fallback2"}
        /\ bg'[p].tiers # bg[p].tiers)
          => scrapedProperties' =
               updateScrapedProperty(scrapedProperties,
                 bg[p].scrapedProperties[bg[p].bestMatch.property].id)]_vars

\* C28: in every reachable storage state in which a request can be served,
\* the row debug-matching reports as currentSubject is the row sync-units
\* takes as the subject.
C28_SameSubjectInDiagnostics ==
  LET rows == DebugRows(scrapingJobs, scrapedProperties)
  IN (turn = NoTurn /\ DebugCurrentSubject(rows) # 0)
        => rows[DebugCurrentSubject(rows)].id
             = SyncUnitsFound(scrapingJobs, scrapedProperties).subject

\* ------------------------------- POST /api/properties, background search
\* The background task of the subject search; its position is kept in the
\* second slot of bg.
SubjectSearch == "r2"

\* What findSubjectPropertyWithSearch resolves to: a listing, or null.
SearchListings == [url : URLs, score : {100}]

\* "const listing = await findSubjectPropertyWithSearch(...)": the task
\* resumes with the listing; with null (or an error, caught) it ends.
SearchResolves ==
  /\ turn = NoTurn
  /\ bg[SubjectSearch].pc = "idle"
  /\ \/ \E listing \in SearchListings :
          /\ bg' = [bg EXCEPT ![SubjectSearch].pc = "searchJob",
                              ![SubjectSearch].allProperties = <<listing>>]
          /\ turn' = SubjectSearch
     \/ /\ bg' = [bg EXCEPT ![SubjectSearch].pc = "done"]
        /\ turn' = NoTurn
  /\ UNCHANGED <<backend, call, scrapingJobs, scrapedProperties, nextId,
                 lastResponse, scrapedUnits, propertyUnits>>

\* "const job = await storage.createScrapingJob({propertyId, status: 'completed'})"
SearchCreateJob ==
  /\ MayRun(SubjectSearch)
  /\ bg[SubjectSearch].pc = "searchJob"
  /\ scrapingJobs' = createScrapingJob(scrapingJobs, nextId, PropertyId, "completed")
  /\ nextId' = nextId + 1
  /\ bg' = [bg EXCEPT ![SubjectSearch].pc = "searchStore",
                      ![SubjectSearch].jobId = nextId]
  /\ turn' = AfterStorageAwait(SubjectSearch)
  /\ UNCHANGED <<backend, call, scrapedProperties, lastResponse, scrapedUnits,
                 propertyUnits>>

\* "await storage.createScrapedProperty({..., matchScore: '100',
\* isSubjectProperty: true})"; an error of the insert is caught and logged.
\* The task goes on to fetch the unit details over the network.
SearchStoreSubject ==
  LET h == bg[SubjectSearch]
      listing == h.allProperties[1]
  IN
  /\ MayRun(SubjectSearch)
  /\ h.pc = "searchStore"
  /\ IF createScrapedPropertyThrows(backend, scrapingJobs, h.jobId)
     THEN UNCHANGED <<scrapedProperties, nextId>>
     ELSE /\ scrapedProperties' = createScrapedProperty(scrapedProperties, nextId, h.jobId,
                                                        listing, listing.score, TRUE)
          /\ nextId' = nextId + 1
  /\ bg' = [bg EXCEPT ![SubjectSearch].pc = "done"]
  /\ turn' = NoTurn
  /\ UNCHANGED <<backend, call, scrapingJobs, lastResponse, scrapedUnits,
                 propertyUnits>>

BackgroundSubjectSearch ==
  \/ SearchResolves
  \/ SearchCreateJob
  \/ SearchStoreSubject

\* Discovery returns at most one listing.
SingleListing == {<<>>} \cup {<<l>> : l \in PropertyListing}

DiscoverSingle(p) == DiscoverFrom(p, SingleListing)

\* The property has just been created: its background search and a scrape
\* request for it.
NextCreation ==
  \/ BackgroundSubjectSearch
  \/ ScrapeClearCache("r1")
  \/ ScrapeCreateJob("r1")
  \/ DiscoverSingle("r1")
  \/ ResolutionPass("r1")

SpecCreation == Init /\ [][NextCreation]_vars

\* C29: for the subject property at most one scraped listing across all of
\* its scraping jobs is flagged, under any interleaving of the background
\* search of the property's creation with a scrape request for it.
C29_OneSubjectAcrossJobs ==
  LET rows == DebugRows(scrapingJobs, scrapedProperties)
  IN Cardinality({k \in DOMAIN rows : rows[k].isSubjectProperty}) <= 1

\* C30: every stored scraped property refers to a scraping job that exists
\* in storage, under any interleaving of two scrape requests.
C30_NoOrphanScrapedProperty ==
  \A k \in DOMAIN scrapedProperties :
     scrapedProperties[k].scrapingJobId \in StoredJobIds

====
